---- MODULE Spec2Model ----
(***************************************************************************)
(* Model of the ClipCreator view of video-cliper                           *)
(* (src/src/components/ClipCreator.tsx) and of the portrait export job it  *)
(* runs, exportPortraitClip.  JavaScript is single threaded: every action  *)
(* below is one task of the event loop (a click handler, a media event, a  *)
(* timer callback, an animation-frame callback) together with the promise  *)
(* continuations (microtasks) it releases.                                 *)
(***************************************************************************)
EXTENDS Integers, Sequences, FiniteSets, TLC

\* ---------------------------------------------------------------- bounds
\* Export invocations (clicks on "Ekspor 9:16") followed in one view.
MaxJobs == 2
\* Export invocations followed when wall-clock time is modelled.
TimedJobs == 1
\* Export invocations followed where only their overlap matters: the third
\* click is the first that can find the button of a running export enabled.
BusyJobs == MaxJobs + 1
\* Persisted clips listed in the view; clip c lasts ClipDuration(c) ticks.
NumClips == 2
\* Longest time, in ticks, that sourceVideo.play() takes to settle.
MaxPlayWait == 1

Jobs == 1..BusyJobs
Clips == 1..NumClips
\* exportingClipId === null
NoClip == 0

\* clip.duration of a persisted clip, in ticks of the model's clock.
ClipDuration(c) == c

\* The preference list of exportPortraitClip.
preferredMimeTypes == <<"video/webm;codecs=vp9", "video/webm;codecs=vp8", "video/webm">>

\* ---------------------------------------------------------------- numbers
\* A JavaScript number is an IEEE-754 double.  The finite ones are the
\* dyadic rationals (-1)^neg * m * 2^e whose m fits in Precision bits; the
\* exponent range is never approached by the values followed here and is left
\* unbounded.  m is a sequence of bits, least significant first, without a
\* leading (last) zero; a number in canonical form has m odd, or is Zero.
Precision == 53
\* Binary places computed before rounding a quotient of two integers: enough
\* for the quotients above 2^-64.
QuotientPlaces == 128

Zero == [neg |-> FALSE, m |-> <<>>, e |-> 0]

\* The position of the highest set bit of b, 0 when there is none.
Highest(b) ==
    Len(b) - (CHOOSE k \in 0..Len(b) :
                 /\ k = Len(b) \/ b[Len(b) - k] = 1
                 /\ \A j \in 0..(k - 1) : b[Len(b) - j] = 0)

\* The number of zero bits below the lowest set bit of b.
LowZeros(b) ==
    CHOOSE k \in 0..Len(b) :
        /\ k = Len(b) \/ b[k + 1] = 1
        /\ \A j \in 1..k : b[j] = 0

TrimHigh(b) == SubSeq(b, 1, Highest(b))

ShiftLeft(b, k) == IF b = <<>> THEN b ELSE [i \in 1..k |-> 0] \o b

Canon(neg, b, e) ==
    LET t == TrimHigh(b)
        z == LowZeros(t)
    IN  IF t = <<>> THEN Zero
        ELSE [neg |-> neg, m |-> SubSeq(t, z + 1, Len(t)), e |-> e + z]

RECURSIVE BitsOf(_)
BitsOf(n) == IF n = 0 THEN <<>> ELSE <<n % 2>> \o BitsOf(n \div 2)

Bit(b, i) == IF i <= Len(b) THEN b[i] ELSE 0

\* Bits lo..hi of a + sign * b + carry, followed by the carry out of bit hi
\* (a borrow is a carry of -1); the range is halved so that the depth of the
\* evaluation stays logarithmic in the length.
RECURSIVE SumRange(_, _, _, _, _, _)
SumRange(a, b, sign, lo, hi, carry) ==
    IF lo = hi
    THEN LET s == Bit(a, lo) + sign * Bit(b, lo) + carry
         IN  <<s % 2, s \div 2>>
    ELSE LET mid == (lo + hi) \div 2
             low == SumRange(a, b, sign, lo, mid, carry)
             high == SumRange(a, b, sign, mid + 1, hi, low[Len(low)])
         IN  SubSeq(low, 1, Len(low) - 1) \o high

Max2(x, y) == IF x < y THEN y ELSE x

BitsAdd(a, b) ==
    IF a = <<>> /\ b = <<>> THEN <<>>
    ELSE TrimHigh(SumRange(a, b, 1, 1, Max2(Len(a), Len(b)), 0))

\* a - b for a >= b: the borrow out is 0
BitsSub(a, b) ==
    IF a = <<>> THEN <<>>
    ELSE LET d == SumRange(a, b, -1, 1, Len(a), 0)
         IN  TrimHigh(SubSeq(d, 1, Len(a)))

\* a < b, for a and b without leading zeros: by the highest bit that differs
BitsLess(a, b) ==
    IF Len(a) # Len(b) THEN Len(a) < Len(b)
    ELSE LET n == Len(a)
             k == CHOOSE k \in 0..n :
                     /\ k = n \/ a[n - k] # b[n - k]
                     /\ \A j \in 0..(k - 1) : a[n - j] = b[n - j]
         IN  k < n /\ a[n - k] < b[n - k]

Min2(x, y) == IF x < y THEN x ELSE y

\* The mantissa of x at exponent e <= x.e
MantissaAt(x, e) == ShiftLeft(x.m, x.e - e)

Neg(x) == IF x = Zero THEN Zero ELSE [x EXCEPT !.neg = ~x.neg]

\* x + y, exactly
ExactAdd(x, y) ==
    LET e == Min2(x.e, y.e)
        a == MantissaAt(x, e)
        b == MantissaAt(y, e)
    IN  IF x.neg = y.neg THEN Canon(x.neg, BitsAdd(a, b), e)
        ELSE IF BitsLess(a, b) THEN Canon(y.neg, BitsSub(b, a), e)
        ELSE Canon(x.neg, BitsSub(a, b), e)

ExactSub(x, y) == ExactAdd(x, Neg(y))

\* n * x, exactly, for a natural number n
RECURSIVE ExactTimes(_, _)
ExactTimes(n, x) == IF n = 0 THEN Zero ELSE ExactAdd(x, ExactTimes(n - 1, x))

\* x < y and x <= y: the comparison of two doubles is exact.
Less(x, y) == ExactSub(x, y).neg

LessEq(x, y) == ~Less(y, x)

\* Round to nearest, ties to even: the rounding of every arithmetic operator.
Round(x) ==
    IF Len(x.m) <= Precision THEN x
    ELSE LET k == Len(x.m) - Precision
             kept == SubSeq(x.m, k + 1, Len(x.m))
             half == x.m[k] = 1
             \* x.m is odd, so below the half bit the rest is not zero when k > 1
             up == half /\ (k > 1 \/ kept[1] = 1)
         IN  Canon(x.neg, IF up THEN BitsAdd(kept, <<1>>) ELSE kept, x.e + k)

\* The operators of the language on numbers: a + b, a - b, Math.min(a, b).
Plus(a, b) == Round(ExactAdd(a, b))

Minus(a, b) == Round(ExactSub(a, b))

MathMin(a, b) == IF Less(b, a) THEN b ELSE a

\* x * 2^k, exactly
Scale(x, k) == IF x = Zero THEN Zero ELSE [x EXCEPT !.e = @ + k]

Abs(x) == [x EXCEPT !.neg = FALSE]

\* The sum of b * 2^(i - 1) over the set bits i of a in lo..hi.
RECURSIVE ProductRange(_, _, _, _)
ProductRange(a, b, lo, hi) ==
    IF lo = hi THEN (IF a[lo] = 1 THEN ShiftLeft(b, lo - 1) ELSE <<>>)
    ELSE LET mid == (lo + hi) \div 2
         IN  BitsAdd(ProductRange(a, b, lo, mid), ProductRange(a, b, mid + 1, hi))

\* x * y, exactly
ExactMul(x, y) ==
    IF x = Zero \/ y = Zero THEN Zero
    ELSE Canon(x.neg # y.neg, ProductRange(x.m, y.m, 1, Len(x.m)), x.e + y.e)

\* a * b and a / 2 of the language (a division by two is exact).
Times(a, b) == Round(ExactMul(a, b))

Half(a) == Scale(a, -1)

\* The first `places` bits of r / d after the binary point, for 0 <= r < d,
\* most significant first, and the remainder left.
RECURSIVE FractionBits(_, _, _)
FractionBits(r, d, places) ==
    IF places = 1 THEN [bits |-> <<(2 * r) \div d>>, rem |-> (2 * r) % d]
    ELSE LET first == FractionBits(r, d, places \div 2)
             rest == FractionBits(first.rem, d, places - places \div 2)
         IN  [bits |-> first.bits \o rest.bits, rem |-> rest.rem]

Reverse(b) == [i \in 1..Len(b) |-> b[Len(b) + 1 - i]]

\* The double that a decimal literal, or Number(text), of value n / d
\* denotes, for naturals n and d > 0: the quotient to QuotientPlaces binary
\* places, with one more low bit that stands for a remainder left, rounded.
Ratio(n, d) ==
    LET f == FractionBits(n % d, d, QuotientPlaces)
        sticky == IF f.rem = 0 THEN <<0>> ELSE <<1>>
    IN  Round(Canon(FALSE, sticky \o Reverse(f.bits) \o BitsOf(n \div d),
                    -(QuotientPlaces + 1)))

Whole(n) == IF n < 0 THEN Neg(Ratio(-n, 1)) ELSE Ratio(n, 1)

\* --------------------------------------------------------------- runtimes
\* The runtimes followed: what the browser offers.  mediaRecorder:
\* window.MediaRecorder is defined; captureStream: HTMLVideoElement has
\* captureStream; canvasCtx: getContext('2d') is not null; supported: the
\* types MediaRecorder.isTypeSupported accepts; audio: the source has an
\* audio track; stopThrows: MediaRecorder.stop() on an inactive recorder
\* throws InvalidStateError (older engines) instead of returning.
FullEnv == [mediaRecorder |-> TRUE, captureStream |-> TRUE, canvasCtx |-> TRUE,
            supported |-> {"video/webm;codecs=vp8", "video/webm"},
            audio |-> TRUE, stopThrows |-> FALSE]
Envs == { FullEnv,
          [FullEnv EXCEPT !.stopThrows = TRUE],
          [FullEnv EXCEPT !.audio = FALSE, !.supported = {"video/webm"}],
          [FullEnv EXCEPT !.audio = FALSE, !.stopThrows = TRUE],
          [FullEnv EXCEPT !.mediaRecorder = FALSE],
          [FullEnv EXCEPT !.captureStream = FALSE],
          [FullEnv EXCEPT !.canvasCtx = FALSE],
          [FullEnv EXCEPT !.supported = {}] }

VARIABLES
    env,              \* the runtime (never changes)
    clockOn,          \* whether wall-clock time is modelled (never changes)
    slots,            \* how many export invocations are followed (never changes)
    mounted,          \* the ClipCreator is rendered (selectedVideo # null)
    videoUrl,         \* useState videoUrl: TRUE when a non-empty URL is set
    exportingClipId,  \* useState exportingClipId
    errorMessage,     \* useState errorMessage
    job               \* the closures of the export invocations

\* The segment planner of the same view, and the frame geometry.
VARIABLES
    video,            \* the video prop: [duration]
    clipDuration,     \* useState clipDuration
    clips,            \* useState clips: the drafts
    generating,       \* useState generating
    generatedClips,   \* useState generatedClips
    store,            \* the rows of video_clips that belong to this video
    confirm,          \* the closure of the last generateClips invocation
    requests,         \* requests sent to the record store and not answered yet
    calls,            \* calls made so far to the session provider and the store
    lastAlert,        \* the last alert() shown
    lastOp,           \* the handler that ran last
    hung,             \* a handler is in a loop that never ends
    edits,            \* planner edits made so far, where they are counted
    frame             \* the source size and the rectangle drawFrame draws it in

planVars == <<video, clipDuration, clips, generating, generatedClips, store,
              confirm, requests, calls, lastAlert, lastOp, hung, edits, frame>>

exportVars == <<env, clockOn, slots, mounted, videoUrl, exportingClipId, errorMessage, job>>

vars == <<env, clockOn, slots, mounted, videoUrl, exportingClipId, errorMessage, job,
          video, clipDuration, clips, generating, generatedClips, store,
          confirm, requests, calls, lastAlert, lastOp, hung, edits, frame>>

\* Array.prototype.find over the preference list: the first supported type.
RECURSIVE FindFrom(_, _)
FindFrom(i, supported) ==
    IF i > Len(preferredMimeTypes) THEN "undefined"
    ELSE IF preferredMimeTypes[i] \in supported THEN preferredMimeTypes[i]
    ELSE FindFrom(i + 1, supported)

\* Variant: a default type instead of undefined when nothing is supported.
FindMimeTypeNoCheck(supported) ==
    IF FindFrom(1, supported) = "undefined" THEN "video/webm" ELSE FindFrom(1, supported)

FindMimeType(supported) == FindFrom(1, supported)

\* The state of an invocation's closure before the invocation.
IdleJob ==
    [pc |-> "idle",               \* where the async function is suspended
     clip |-> NoClip,             \* the clip argument
     cause |-> "none",            \* the error the invocation ended with
     hist |-> <<"idle">>,         \* capture states passed through, in order
     sourceVideo |-> "none",      \* none | paused | playPending | playing
     canvasTrack |-> "none",      \* canvasStream's video track
     videoTrack |-> "none",       \* sourceStream's video track
     audioTrack |-> "none",       \* sourceStream's audio track (also in composedStream)
     recorder |-> "none",         \* none | created | recording | flushing | inactive
     recordingPromise |-> "none", \* none | pending | resolved | rejected
     recordingStopped |-> FALSE,
     chunks |-> 0,
     blobs |-> 0,                 \* Blobs built by recorder.onstop
     timer |-> "none",            \* the setTimeout(stopRecording): none | pending | fired
     timerLeft |-> 0,             \* ticks until the timer is due
     elapsed |-> 0,               \* ticks the recorder has been recording
     raf |-> FALSE,               \* a requestAnimationFrame(drawFrame) is pending
     lateFrames |-> 0,            \* frames painted after the stop (the canvas itself is not modelled)
     stopCalls |-> 0,             \* calls of stopRecording
     recorderStops |-> 0,         \* calls of recorder.stop()
     canvasStops |-> 0,           \* calls of stop() on each track
     videoStops |-> 0,
     audioStops |-> 0,
     saved |-> 0]                 \* link.click(): file saves triggered

Terminal == {"finalized", "failed"}
InFlight(j) == job[j].pc \notin ({"idle"} \cup Terminal)

\* A state setter of the view: React drops updates of an unmounted component.
SetState(old, new) == IF mounted THEN new ELSE old

\* The planner as the component constructs it (useState initial values),
\* before a video with a duration is opened in it.
DefaultClipDuration == Whole(30)

NoCalls == [getUser |-> 0, insert |-> 0, select |-> 0]

NoFrame == [width |-> 0, height |-> 0, rect |-> <<>>]

\* No generateClips invocation yet.  pc: the await the invocation is
\* suspended at, "idle" once it returned; gen: its number; drafts: the clips
\* of the render it was created in; waiting: the inserts Promise.all has not
\* seen fulfilled; user: whether getUser gave a user; err: what its catch
\* block caught.
NoConfirm == [pc |-> "idle", gen |-> 0, drafts |-> <<>>, waiting |-> {},
              user |-> "unset", err |-> "none"]

InitPlannerState ==
    /\ clipDuration = DefaultClipDuration
    /\ clips = <<>>
    /\ generating = FALSE
    /\ generatedClips = <<>>
    /\ store = {}
    /\ confirm = NoConfirm
    /\ requests = {}
    /\ calls = NoCalls
    /\ lastAlert = "none"
    /\ lastOp = "none"
    /\ hung = FALSE
    /\ edits = 0

\* The export specifications follow the export job only: no planner handler
\* runs in them and no frame geometry is computed.
InitPlannerIdle ==
    /\ video = [duration |-> Zero]
    /\ InitPlannerState
    /\ frame = NoFrame

InitView ==
    /\ InitPlannerIdle
    /\ env \in Envs
    /\ mounted = TRUE
    /\ videoUrl \in BOOLEAN
    /\ exportingClipId = NoClip
    /\ errorMessage = IF videoUrl THEN "null" ELSE "loadVideoUrl"
    /\ job = [j \in Jobs |-> IdleJob]

Init == InitView /\ clockOn = FALSE /\ slots = MaxJobs

InitBusy == InitView /\ clockOn = FALSE /\ slots = BusyJobs

InitTimed == InitView /\ clockOn = TRUE /\ slots = TimedJobs

\* ------------------------------------------------- ends of an invocation
\* The task ends with the invocation still suspended (or already over).
Continue(j, r) ==
    /\ job' = [job EXCEPT ![j] = r]
    /\ UNCHANGED <<planVars, env, clockOn, slots, mounted, videoUrl, exportingClipId, errorMessage>>

\* catch: setErrorMessage(...); finally: setExportingClipId(null).
Failure(j, r, cause) ==
    /\ job' = [job EXCEPT ![j] = [r EXCEPT !.pc = "failed", !.cause = cause,
                                           !.hist = Append(@, "failed")]]
    /\ errorMessage' = SetState(errorMessage, "exportFailed")
    /\ exportingClipId' = SetState(exportingClipId, NoClip)
    /\ UNCHANGED <<planVars, env, clockOn, slots, mounted, videoUrl>>

\* The download link is clicked; finally: setExportingClipId(null).
Success(j, r) ==
    /\ job' = [job EXCEPT ![j] = [r EXCEPT !.pc = "finalized", !.saved = @ + 1,
                                           !.hist = Append(@, "finalized")]]
    /\ exportingClipId' = SetState(exportingClipId, NoClip)
    /\ UNCHANGED <<planVars, env, clockOn, slots, mounted, videoUrl, errorMessage>>

\* ---------------------------------------------------------- stopRecording
Bump(track, n) == IF track = "none" THEN n ELSE n + 1
Ended(track) == IF track = "none" THEN "none" ELSE "ended"

\* composedStream.getTracks().forEach(stop): the canvas track and the audio
\* track; sourceStream.getTracks().forEach(stop): the source's video track
\* and the same audio track again; sourceVideo.pause().
ReleaseTracks(r) ==
    [r EXCEPT !.canvasStops = Bump(r.canvasTrack, @),
              !.audioStops = Bump(r.audioTrack, Bump(r.audioTrack, @)),
              !.videoStops = Bump(r.videoTrack, @),
              !.canvasTrack = Ended(@),
              !.audioTrack = Ended(@),
              !.videoTrack = Ended(@),
              !.sourceVideo = "paused"]

\* recorder.stop() throws: the recorder is inactive and the runtime throws.
RecorderStopThrows(r) == r.recorder # "recording" /\ env.stopThrows

\* The body of stopRecording after the flag is set.
StopBody(r) ==
    LET flagged == [r EXCEPT !.recordingStopped = TRUE, !.recorderStops = @ + 1]
    IN  IF RecorderStopThrows(r) THEN flagged
        ELSE IF r.recorder = "recording"
             THEN ReleaseTracks([flagged EXCEPT !.recorder = "flushing"])
             ELSE ReleaseTracks(flagged)

\* Variant: stopRecording without its `if (recordingStopped) return`.
StopRecordingNoGuard(r) == StopBody([r EXCEPT !.stopCalls = @ + 1])

\* stopRecording: a no-op once recordingStopped is set.
StopRecording(r) ==
    IF r.recordingStopped THEN [r EXCEPT !.stopCalls = @ + 1]
    ELSE StopBody([r EXCEPT !.stopCalls = @ + 1])

\* Whether this call of stopRecording throws to its caller.
StopRecordingThrows(r) == StopRecording(r).recorderStops > r.recorderStops
                          /\ RecorderStopThrows(r)

\* The code after `await recordingPromise` once the promise is resolved:
\* stopRecording(), then the file save.
Finish(j, r) ==
    IF StopRecordingThrows(r) THEN Failure(j, StopRecording(r), "stop")
    ELSE Success(j, StopRecording(r))

\* `await recordingPromise`.
AwaitRecording(j, r) ==
    CASE r.recordingPromise = "rejected" -> Failure(j, r, "encoder")
      [] r.recordingPromise = "resolved" -> Finish(j, r)
      [] OTHER -> Continue(j, [r EXCEPT !.pc = "recording"])

\* ------------------------------------------------------------- handlers
\* Click on "Ekspor 9:16" of clip c (disabled while exportingClipId = c):
\* exportPortraitClip up to its first await.  Invocations are numbered in
\* the order of the clicks.
ExportInvoke(j, c) ==
    /\ mounted
    /\ j <= slots
    /\ job[j].pc = "idle"
    /\ j > 1 => job[j - 1].pc # "idle"
    /\ exportingClipId # c
    /\ LET r == [job[j] EXCEPT !.clip = c]
       IN  IF ~videoUrl
           THEN /\ job' = [job EXCEPT ![j] = [r EXCEPT !.pc = "failed", !.cause = "videoUrl",
                                                       !.hist = Append(@, "failed")]]
                /\ errorMessage' = "notReady"
                /\ UNCHANGED <<planVars, env, clockOn, slots, mounted, videoUrl, exportingClipId>>
           ELSE IF ~env.mediaRecorder
           THEN /\ job' = [job EXCEPT ![j] = [r EXCEPT !.pc = "failed", !.cause = "mediaRecorder",
                                                       !.hist = Append(@, "failed")]]
                /\ errorMessage' = "noMediaRecorder"
                /\ UNCHANGED <<planVars, env, clockOn, slots, mounted, videoUrl, exportingClipId>>
           ELSE /\ job' = [job EXCEPT ![j] = [r EXCEPT !.pc = "metadata",
                                                       !.sourceVideo = "paused",
                                                       !.hist = Append(@, "loading-metadata")]]
                /\ errorMessage' = "null"
                /\ exportingClipId' = c
                /\ UNCHANGED <<planVars, env, clockOn, slots, mounted, videoUrl>>

\* The code between the seek and `await sourceVideo.play()`: the capability
\* checks, the streams, the recorder, recorder.start(), sourceVideo.play().
PrepareCapture(j, r0) ==
    LET r == [r0 EXCEPT !.hist = Append(@, "preparing-capture")]
        streams == [r EXCEPT !.canvasTrack = "live", !.videoTrack = "live",
                             !.audioTrack = IF env.audio THEN "live" ELSE "none"]
    IN  IF ~env.captureStream THEN Failure(j, r, "captureStream")
        ELSE IF ~env.canvasCtx THEN Failure(j, r, "canvas")
        ELSE IF FindMimeType(env.supported) = "undefined" THEN Failure(j, streams, "mimeType")
        ELSE Continue(j, [streams EXCEPT !.recorder = "recording",
                                         !.recordingPromise = "pending",
                                         !.sourceVideo = "playPending",
                                         !.pc = "play",
                                         !.hist = Append(@, "recording")])

\* Variant: the seek is not awaited (no `await` on onseeked).
MetadataLoadedNoSeekWait(j) ==
    /\ job[j].pc = "metadata"
    /\ PrepareCapture(j, job[j])

\* sourceVideo.onloadedmetadata: the first await resolves; currentTime is
\* set and the invocation waits for onseeked.
MetadataLoaded(j) ==
    /\ job[j].pc = "metadata"
    /\ Continue(j, [job[j] EXCEPT !.pc = "seeking", !.hist = Append(@, "seeking")])

\* sourceVideo.onerror while the metadata is awaited: the await rejects.
MetadataError(j) ==
    /\ job[j].pc = "metadata"
    /\ Failure(j, job[j], "load")

\* sourceVideo.onseeked: the second await resolves.
Seeked(j) ==
    /\ job[j].pc = "seeking"
    /\ PrepareCapture(j, job[j])

\* sourceVideo.play() resolves: the first drawFrame is requested, the stop
\* timer is set for clip.duration, and recordingPromise is awaited.
PlayResolved(j) ==
    /\ job[j].pc = "play"
    /\ AwaitRecording(j, [job[j] EXCEPT !.sourceVideo = "playing",
                                        !.raf = TRUE,
                                        !.timer = "pending",
                                        !.timerLeft = ClipDuration(job[j].clip)])

\* sourceVideo.play() rejects (autoplay policy, decode failure).
PlayRejected(j) ==
    /\ job[j].pc = "play"
    /\ Failure(j, [job[j] EXCEPT !.sourceVideo = "paused"], "play")

\* The recorder cannot go on: the runtime inactivates it and fires error
\* (onerror rejects recordingPromise), dataavailable and stop (onstop builds
\* the Blob; its resolve comes too late).
RecorderError(j) ==
    /\ job[j].recorder = "recording"
    /\ LET r == [job[j] EXCEPT !.recorder = "inactive",
                               !.recordingPromise = IF @ = "pending" THEN "rejected" ELSE @,
                               !.chunks = @ + 1,
                               !.blobs = @ + 1]
       IN  IF job[j].pc = "recording" THEN AwaitRecording(j, r) ELSE Continue(j, r)

\* The stop timer is due: stopRecording runs as the timer's callback; what
\* it throws is lost.
TimerFire(j) ==
    /\ job[j].timer = "pending"
    /\ clockOn => job[j].timerLeft = 0
    /\ LET r == StopRecording([job[j] EXCEPT !.timer = "fired"])
       IN  Continue(j, IF job[j].pc = "recording" /\ r.recorderStops > job[j].recorderStops
                       THEN [r EXCEPT !.hist = Append(@, "stopped")]
                       ELSE r)

\* The tasks recorder.stop() queued: dataavailable (ondataavailable keeps
\* the chunk) and stop (onstop resolves recordingPromise with the Blob).
RecorderStopEvent(j) ==
    /\ job[j].recorder = "flushing"
    /\ LET r == [job[j] EXCEPT !.recorder = "inactive",
                               !.recordingPromise = IF @ = "pending" THEN "resolved" ELSE @,
                               !.chunks = @ + 1,
                               !.blobs = @ + 1]
       IN  IF job[j].pc = "recording" THEN AwaitRecording(j, r) ELSE Continue(j, r)

\* drawFrame's first line: the callback returns without painting; with
\* the mutation that drops the line.
DrawFrameUnguarded(r) == FALSE

DrawFrameReturns(r) == r.recordingStopped \/ r.recorder # "recording"

\* An animation frame: drawFrame returns, or paints the frame and requests
\* the next animation frame.
DrawFrame(j) ==
    /\ job[j].raf
    /\ IF DrawFrameReturns(job[j])
       THEN Continue(j, [job[j] EXCEPT !.raf = FALSE])
       ELSE Continue(j, [job[j] EXCEPT !.lateFrames =
                            IF job[j].recordingStopped \/ job[j].recorder # "recording"
                            THEN 1 ELSE @])

\* onClose: App sets selectedVideo to null and the ClipCreator unmounts.
\* The component registers no cleanup.
CloseView ==
    /\ mounted
    /\ mounted' = FALSE
    /\ UNCHANGED <<planVars, env, clockOn, slots, videoUrl, exportingClipId, errorMessage, job>>

\* One tick of wall-clock time: no timer is overdue, and play() settles
\* within MaxPlayWait ticks.
Tick ==
    /\ clockOn
    /\ \A j \in Jobs : job[j].timer = "pending" => job[j].timerLeft > 0
    /\ \A j \in Jobs : job[j].pc = "play" => job[j].elapsed < MaxPlayWait
    /\ \E j \in Jobs : job[j].timer = "pending" \/ job[j].pc = "play"
    /\ job' = [j \in Jobs |->
                 [job[j] EXCEPT !.timerLeft = IF job[j].timer = "pending" THEN @ - 1 ELSE @,
                                !.elapsed = IF job[j].recorder = "recording" /\ InFlight(j)
                                            THEN @ + 1 ELSE @]]
    /\ UNCHANGED <<planVars, env, clockOn, slots, mounted, videoUrl, exportingClipId, errorMessage>>

Next ==
    \/ \E j \in Jobs, c \in Clips : ExportInvoke(j, c)
    \/ \E j \in Jobs : MetadataLoaded(j)
    \/ \E j \in Jobs : MetadataError(j)
    \/ \E j \in Jobs : Seeked(j)
    \/ \E j \in Jobs : PlayResolved(j)
    \/ \E j \in Jobs : PlayRejected(j)
    \/ \E j \in Jobs : RecorderError(j)
    \/ \E j \in Jobs : TimerFire(j)
    \/ \E j \in Jobs : RecorderStopEvent(j)
    \/ \E j \in Jobs : DrawFrame(j)
    \/ CloseView

NextTimed == Next \/ Tick

\* Any number of exports in one view; the stop timer fires at some moment
\* after it is set.
Spec == Init /\ [][Next]_vars

\* One more export in the view.
SpecBusy == InitBusy /\ [][Next]_vars

\* One export against the clock.
SpecTimed == InitTimed /\ [][NextTimed]_vars

\* Timers, queued recorder events, animation frames and the settling of
\* play() are delivered by the event loop; media events of the source
\* (loadedmetadata, error, seeked) and recorder errors may never come.
Fairness ==
    \A j \in Jobs :
        /\ WF_vars(TimerFire(j))
        /\ WF_vars(RecorderStopEvent(j))
        /\ WF_vars(DrawFrame(j))
        /\ WF_vars(PlayResolved(j) \/ PlayRejected(j))

SpecFair == Init /\ [][Next]_vars /\ Fairness

\* ------------------------------------------------------------ properties
NoLiveResource(r) ==
    /\ r.canvasTrack # "live"
    /\ r.videoTrack # "live"
    /\ r.audioTrack # "live"
    /\ r.sourceVideo \in {"none", "paused"}
    /\ r.recorder # "recording"

\* C1 as stated: whatever the stop triggers of a job, the body of
\* stopRecording runs exactly once, recorder.stop() is called at most once
\* and every track gets stop() at most once.
C1_StopOncePerTrack ==
    \A j \in Jobs :
        /\ job[j].stopCalls >= 1 => job[j].recorderStops = 1
        /\ job[j].recorderStops <= 1
        /\ job[j].canvasStops <= 1
        /\ job[j].videoStops <= 1
        /\ job[j].audioStops <= 1

\* C1 amended: the body of stopRecording runs exactly once however often it
\* is triggered, recorder.stop() is called at most once, the canvas track
\* and the source's video track get stop() at most once; the audio track,
\* which is in both streams, gets stop() twice in that one run.
C1_StopOnce ==
    \A j \in Jobs :
        /\ job[j].stopCalls >= 1 => job[j].recorderStops = 1
        /\ job[j].recorderStops <= 1
        /\ job[j].canvasStops <= 1
        /\ job[j].videoStops <= 1
        /\ job[j].audioStops \in {0, 2}
        /\ job[j].audioStops = 2 => job[j].canvasStops = 1 /\ job[j].audioTrack = "ended"

\* C1 witness: the timer and the call after the stop event both triggered
\* the stop of a job with an audio track.
C1_Witness ==
    \E j \in Jobs :
        /\ job[j].stopCalls = 2
        /\ job[j].timer = "fired"
        /\ job[j].pc = "finalized"
        /\ job[j].recorderStops = 1
        /\ job[j].audioStops = 2

\* C2 as stated: an invocation that has ended holds no live track, no
\* recording recorder and no playing source.
C2_ReleasedAtEnd ==
    \A j \in Jobs : job[j].pc \in Terminal => NoLiveResource(job[j])

CaptureOrder == <<"idle", "loading-metadata", "seeking", "preparing-capture",
                  "recording", "stopped", "finalized">>

\* The capture states the suspended invocation can be in.
StatesAt(pc) ==
    CASE pc = "idle" -> {"idle"}
      [] pc = "metadata" -> {"loading-metadata"}
      [] pc = "seeking" -> {"seeking"}
      [] pc \in {"play", "recording"} -> {"recording", "stopped"}
      [] pc = "finalized" -> {"finalized"}
      [] pc = "failed" -> {"failed"}

\* C3: the capture states a job passes through are an initial part of idle,
\* loading-metadata, seeking, preparing-capture, recording, stopped,
\* finalized, or such a part that stops short of finalized followed by
\* failed; the job is in the last of them.
C3_StatesInOrder ==
    \A j \in Jobs :
        LET h == job[j].hist
            n == Len(h)
        IN  /\ n >= 1
            /\ h[n] \in StatesAt(job[j].pc)
            /\ \/ n <= Len(CaptureOrder) /\ h = SubSeq(CaptureOrder, 1, n)
               \/ /\ n - 1 < Len(CaptureOrder)
                  /\ h = Append(SubSeq(CaptureOrder, 1, n - 1), "failed")

\* C3 witness: a job that went through all the states, and one that failed.
C3_Witness ==
    /\ \E j \in Jobs : job[j].hist = CaptureOrder
    /\ \E j \in Jobs : job[j].pc = "failed" /\ Len(job[j].hist) = 6

\* C4 as stated: no two invocations on the same clip are in flight together.
C4_OneJobPerClip ==
    \A j1, j2 \in Jobs :
        (j1 # j2 /\ InFlight(j1) /\ InFlight(j2)) => job[j1].clip # job[j2].clip

\* C5 as stated: once the view is closed, no job triggers a file save.
C5_NoSaveAfterClose ==
    [][~mounted => \A j \in Jobs : job'[j].saved = job[j].saved]_vars

\* C6 as stated: a job that failed on an encoder error has stopped its
\* tracks and paused its source, built no Blob and saved no file.
C6_EncoderErrorReleases ==
    \A j \in Jobs :
        job[j].cause = "encoder" =>
            /\ NoLiveResource(job[j])
            /\ job[j].blobs = 0
            /\ job[j].saved = 0

\* C7 as stated: a job that waits for the metadata or for the seek
\* eventually ends.
C7_WaitsEnd ==
    \A j \in Jobs : (job[j].pc \in {"metadata", "seeking"}) ~> (job[j].pc \in Terminal)

Lacking ==
    \/ ~env.mediaRecorder
    \/ ~env.captureStream
    \/ ~env.canvasCtx
    \/ \A i \in 1..Len(preferredMimeTypes) : preferredMimeTypes[i] \notin env.supported

\* C8: in a runtime that lacks MediaRecorder, captureStream, a 2D context
\* or every type of the preference list, no job starts its recorder, starts
\* playback, sets its timer or saves a file, and a job that got past the
\* seek has failed.
C8_UnsupportedFailsEarly ==
    Lacking =>
        \A j \in Jobs :
            /\ job[j].recorder = "none"
            /\ job[j].sourceVideo \in {"none", "paused"}
            /\ job[j].timer = "none"
            /\ job[j].saved = 0
            /\ job[j].pc \in {"idle", "metadata", "seeking", "failed"}

\* C8 witness: a job failed on the codec negotiation, after it captured the
\* streams.
C8_Witness ==
    \E j \in Jobs :
        /\ Lacking
        /\ job[j].pc = "failed"
        /\ job[j].cause = "mimeType"
        /\ job[j].canvasTrack = "live"

\* C9 as stated: when the timer has stopped the recording of a job, the
\* recorder has been recording for the clip's duration.
C9_StopAfterDuration ==
    \A j \in Jobs :
        (job[j].timer = "fired" /\ job[j].cause = "none") =>
            job[j].elapsed = ClipDuration(job[j].clip)

\* C10 as stated: a job that has ended has no stop timer pending.
C10_NoTimerAfterEnd ==
    \A j \in Jobs : job[j].pc \in Terminal => job[j].timer # "pending"

\* ================================================================ planner
\* The planner specifications follow a view that stays open, with a video
\* URL and no export running.
InitExportIdle ==
    /\ env = FullEnv
    /\ clockOn = FALSE
    /\ slots = 0
    /\ mounted = TRUE
    /\ videoUrl = TRUE
    /\ exportingClipId = NoClip
    /\ errorMessage = "null"
    /\ job = [j \in Jobs |-> IdleJob]

\* Iterations of the loop of autoGenerateClips followed.
MaxSegments == 12

Positive(x) == Less(Zero, x)

\* `Clip ${n}`
DefaultTitle(n) == <<"Clip", n>>

\* currentTime < video.duration, with the mutation that admits equality.
LoopConditionInclusive(currentTime, total) == LessEq(currentTime, total)

LoopCondition(currentTime, total) == Less(currentTime, total)

\* The loop of autoGenerateClips from one evaluation of its condition on.
\* "ended": the condition became false; "never": an iteration leaves
\* currentTime where it was or below it, and so does every later one: the
\* loop does not end; "beyond": more than MaxSegments iterations, not
\* followed.
RECURSIVE SliceLoop(_, _, _, _)
SliceLoop(currentTime, newClips, total, slice) ==
    IF ~LoopCondition(currentTime, total) THEN [end |-> "ended", clips |-> newClips]
    ELSE LET duration == MathMin(slice, Minus(total, currentTime))
             pushed == Append(newClips, [start |-> currentTime, duration |-> duration,
                                         title |-> DefaultTitle(Len(newClips) + 1)])
             next == Plus(currentTime, duration)
         IN  IF ~Less(currentTime, next) THEN [end |-> "never", clips |-> pushed]
             ELSE IF Len(pushed) > MaxSegments THEN [end |-> "beyond", clips |-> pushed]
             ELSE SliceLoop(next, pushed, total, slice)

AutoSlice(total, slice) == SliceLoop(Zero, <<>>, total, slice)

\* The segments pushed are new objects: ref tells them from the objects of
\* every other edit.
AsObjects(segments) ==
    [i \in 1..Len(segments) |->
        [start |-> segments[i].start, duration |-> segments[i].duration,
         title |-> segments[i].title, ref |-> <<edits + 1, i>>]]

\* Click on "Auto Generate".  A loop that never ends keeps the only thread:
\* no handler runs after it and setClips is not reached.
AutoGenerateClips ==
    /\ mounted /\ ~hung
    /\ LET r == AutoSlice(video.duration, clipDuration)
       IN  /\ r.end # "beyond"
           /\ hung' = (r.end = "never")
           /\ clips' = IF r.end = "ended" THEN AsObjects(r.clips) ELSE clips
    /\ lastOp' = "autoGenerateClips"
    /\ UNCHANGED <<exportVars, video, clipDuration, generating, generatedClips, store,
                   confirm, requests, calls, lastAlert, frame>>

\* onChange of the clip duration input: Number(e.target.value).  The min and
\* max of the input are hints to the browser, nothing enforces them.
SetClipDuration(v) ==
    /\ mounted /\ ~hung
    /\ clipDuration' = v
    /\ lastOp' = "setClipDuration"
    /\ UNCHANGED <<exportVars, video, clips, generating, generatedClips, store,
                   confirm, requests, calls, lastAlert, hung, frame>>

\* ----------------------------------------------- slicing as a function
\* Durations of the videos opened and the slice lengths typed.
SliceDurations == {Zero, Whole(1), Whole(2), Whole(10), Whole(95), Ratio(953, 10)}

SliceLengths == {Whole(30), Whole(5), Whole(1), Ratio(1, 4), Ratio(1, 10), Zero, Whole(-1)}

InitSlice ==
    /\ InitExportIdle
    /\ video \in [duration : SliceDurations]
    /\ InitPlannerState
    /\ frame = NoFrame

NextSlice ==
    \/ AutoGenerateClips /\ UNCHANGED edits
    \/ \E v \in SliceLengths : SetClipDuration(v) /\ UNCHANGED edits

SpecSlice == InitSlice /\ [][NextSlice]_vars

\* The drafts are the result of slicing video.duration by clipDuration.
Sliced == lastOp = "autoGenerateClips" /\ ~hung

End(c) == Plus(c.start, c.duration)

\* C11: for every totalDuration > 0 and sliceLength > 0, autoSlice returns
\* segments with strictly increasing starts, each of positive length, the
\* first starting at 0, each next one starting where the one before ends, the
\* last ending at totalDuration, and as many of them as the ceiling of
\* totalDuration / sliceLength: the n with (n - 1) * sliceLength <
\* totalDuration <= n * sliceLength.  The end of a segment is start + duration
\* as the program computes it; the products of the ceiling are exact.
C11_ExactCover ==
    (Sliced /\ Positive(video.duration) /\ Positive(clipDuration)) =>
        /\ Len(clips) > 0
        /\ clips[1].start = Zero
        /\ \A i \in 1..Len(clips) : Positive(clips[i].duration)
        /\ \A i \in 1..(Len(clips) - 1) :
              /\ Less(clips[i].start, clips[i + 1].start)
              /\ clips[i + 1].start = End(clips[i])
        /\ End(clips[Len(clips)]) = video.duration
        /\ Less(ExactTimes(Len(clips) - 1, clipDuration), video.duration)
        /\ LessEq(video.duration, ExactTimes(Len(clips), clipDuration))

\* C12: for a sliceLength > 0, autoSlice returns no segment exactly when
\* totalDuration <= 0 (and it returns).
C12_EmptyIffNoDuration ==
    (lastOp = "autoGenerateClips" /\ Positive(clipDuration)) =>
        /\ ~hung
        /\ (clips = <<>>) <=> ~Positive(video.duration)

C12_Witness ==
    /\ Sliced
    /\ Positive(clipDuration)
    /\ video.duration = Zero
    /\ clips = <<>>

\* ------------------------------------------------------- drafts by hand
\* Drafts followed in the list, and generateClips invocations that reach the
\* session provider.
MaxDrafts == 2
MaxConfirms == 1

\* The title typed into the title field of a draft.
TypedTitle == <<"typed">>

\* Math.min(clipDuration, video.duration - currentTime), with the mutation
\* that does not clamp.
UnclampedDuration(currentTime) == clipDuration

ClampedDuration(currentTime) == MathMin(clipDuration, Minus(video.duration, currentTime))

\* Click on "Add Clip at Current Time" with the playhead at currentTime.
AddClip(currentTime) ==
    /\ mounted /\ ~hung
    /\ Len(clips) < MaxDrafts
    /\ LessEq(Zero, currentTime) /\ LessEq(currentTime, video.duration)
    /\ clips' = clips \o AsObjects(<<[start |-> currentTime,
                                       duration |-> ClampedDuration(currentTime),
                                       title |-> DefaultTitle(Len(clips) + 1)]>>)
    /\ lastOp' = "addClip"
    /\ UNCHANGED <<exportVars, video, clipDuration, generating, generatedClips, store,
                   confirm, requests, calls, lastAlert, hung, frame>>

\* clips.filter((_, i) => i !== index)
Without(s, index) == [i \in 1..(Len(s) - 1) |-> IF i < index THEN s[i] ELSE s[i + 1]]

\* Click on the remove button of draft `index`.
RemoveClip(index) ==
    /\ mounted /\ ~hung
    /\ index \in 1..Len(clips)
    /\ clips' = Without(clips, index)
    /\ lastOp' = "removeClip"
    /\ UNCHANGED <<exportVars, video, clipDuration, generating, generatedClips, store,
                   confirm, requests, calls, lastAlert, hung, frame>>

\* newClips[index].title = e.target.value: the array is copied, the draft
\* is not, so the title changes in every array that holds the object.
Retitled(drafts, ref) ==
    [i \in 1..Len(drafts) |->
        IF drafts[i].ref = ref THEN [drafts[i] EXCEPT !.title = TypedTitle] ELSE drafts[i]]

\* onChange of the title field of draft `index`; the clips of a
\* generateClips invocation are the array of the render it was created in.
EditTitle(index) ==
    /\ mounted /\ ~hung
    /\ index \in 1..Len(clips)
    /\ clips' = Retitled(clips, clips[index].ref)
    /\ confirm' = [confirm EXCEPT !.drafts = Retitled(@, clips[index].ref)]
    /\ lastOp' = "editTitle"
    /\ UNCHANGED <<exportVars, video, clipDuration, generating, generatedClips, store,
                   requests, calls, lastAlert, hung, frame>>

\* ---------------------------------------------------------------- confirm
\* clip.duration <= 0, with the mutation that accepts every draft.
InvalidDraftUnchecked(clip) == FALSE

InvalidDraft(clip) == LessEq(clip.duration, Zero)

\* The row an insert of draft idx of the invocation `gen` stores; the store
\* gives the id.
Row(gen, idx, clip) ==
    [id |-> <<gen, idx>>, start_time |-> clip.start, duration |-> clip.duration,
     title |-> clip.title]

\* The requests of the invocation `gen`: the session lookup, the insert of
\* its draft idx, the query of loadExistingClips.
GetUserRequest(gen) == [kind |-> "getUser", gen |-> gen]

InsertRequest(gen, idx, clip) == [kind |-> "insert", gen |-> gen, row |-> Row(gen, idx, clip)]

SelectRequest(gen) == [kind |-> "select", gen |-> gen]

Inserts == {r \in requests : r.kind = "insert"}

Idx(r) == r.row.id[2]

\* The rows in an order by start_time ascending (rows that start together
\* come in any order).
RECURSIVE Ordered(_)
Ordered(rows) ==
    IF rows = {} THEN {<<>>}
    ELSE LET firsts == {r \in rows : \A q \in rows : LessEq(r.start_time, q.start_time)}
         IN  UNION {{<<r>> \o t : t \in Ordered(rows \ {r})} : r \in firsts}

\* The texts of the alerts of generateClips.
AlertNoClips == "Please add some clips first"

AlertDuration == "Clip duration must be greater than 0 seconds"

AlertFailed == "Failed to generate clips. Please try again."

AlertCreated == "Clips created successfully!"

\* Click on "Create N Clips".  The button is disabled while generating; the
\* view renders it only when there are drafts, the first check covers a
\* call without.
GenerateClips ==
    /\ mounted /\ ~hung
    /\ ~generating
    /\ lastOp' = "generateClips"
    /\ \/ /\ clips = <<>>
          /\ lastAlert' = AlertNoClips
          /\ UNCHANGED <<generating, confirm, requests, calls>>
       \/ /\ clips # <<>>
          /\ \E i \in 1..Len(clips) : InvalidDraft(clips[i])
          /\ lastAlert' = AlertDuration
          /\ UNCHANGED <<generating, confirm, requests, calls>>
       \/ /\ clips # <<>>
          /\ \A i \in 1..Len(clips) : ~InvalidDraft(clips[i])
          /\ calls.getUser < MaxConfirms
          /\ generating' = TRUE
          /\ confirm' = [pc |-> "getUser", gen |-> calls.getUser + 1, drafts |-> clips,
                         waiting |-> {}, user |-> "unset", err |-> "none"]
          /\ requests' = requests \cup {GetUserRequest(calls.getUser + 1)}
          /\ calls' = [calls EXCEPT !.getUser = @ + 1]
          /\ UNCHANGED lastAlert
    /\ UNCHANGED <<exportVars, video, clipDuration, clips, generatedClips, store, hung, frame>>

\* catch and finally of generateClips; `user` is what getUser gave, if it
\* has answered.
ConfirmFails(user, err) ==
    /\ lastAlert' = AlertFailed
    /\ generating' = FALSE
    /\ confirm' = [confirm EXCEPT !.pc = "idle", !.waiting = {}, !.user = user, !.err = err]

\* if (!user) throw, with the mutation that goes on without a user.
NoUserUnchecked(user) == FALSE

NoUser(user) == user = "no"

\* if (error) throw error, with the mutation that ignores the error.
InsertRejectsUnchecked(ok) == FALSE

InsertRejects(ok) == ~ok

\* supabase.auth.getUser() settles: with a user ("yes") or without ("no").
GetUserReply(user) ==
    /\ confirm.pc = "getUser"
    /\ GetUserRequest(confirm.gen) \in requests
    /\ lastOp' = "getUserReply"
    /\ IF NoUser(user)
       THEN /\ ConfirmFails(user, "Not authenticated")
            /\ requests' = requests \ {GetUserRequest(confirm.gen)}
            /\ UNCHANGED calls
       ELSE /\ confirm' = [confirm EXCEPT !.pc = "inserts", !.user = user,
                                          !.waiting = 1..Len(confirm.drafts)]
            /\ requests' = (requests \ {GetUserRequest(confirm.gen)})
                             \cup {InsertRequest(confirm.gen, i, confirm.drafts[i]) :
                                      i \in 1..Len(confirm.drafts)}
            /\ calls' = [calls EXCEPT !.insert = @ + Len(confirm.drafts)]
            /\ UNCHANGED <<generating, lastAlert>>
    /\ UNCHANGED <<exportVars, video, clipDuration, clips, generatedClips, store, hung, frame>>

\* The store answers the insert r: the row is stored, or an error comes
\* back.  Promise.all settles when the last of its inserts is fulfilled, or
\* when the first is rejected, whatever the others do.
InsertReply(r, ok) ==
    /\ r \in Inserts
    /\ requests' = (requests \ {r})
                     \cup (IF confirm.pc = "inserts" /\ r.gen = confirm.gen
                              /\ ~InsertRejects(ok) /\ confirm.waiting = {Idx(r)}
                           THEN {SelectRequest(confirm.gen)} ELSE {})
    /\ store' = IF ok THEN store \cup {r.row} ELSE store
    /\ lastOp' = "insertReply"
    /\ IF confirm.pc = "inserts" /\ r.gen = confirm.gen
       THEN IF ~InsertRejects(ok)
            THEN /\ confirm' = [confirm EXCEPT
                                   !.waiting = @ \ {Idx(r)},
                                   !.pc = IF confirm.waiting = {Idx(r)} THEN "query" ELSE @]
                 /\ calls' = [calls EXCEPT
                                 !.select = IF confirm.waiting = {Idx(r)} THEN @ + 1 ELSE @]
                 /\ UNCHANGED <<generating, lastAlert>>
            ELSE /\ ConfirmFails(confirm.user, "insert")
                 /\ UNCHANGED calls
       ELSE UNCHANGED <<confirm, calls, generating, lastAlert>>
    /\ UNCHANGED <<exportVars, video, clipDuration, clips, generatedClips, hung, frame>>

\* The store answers the query of loadExistingClips, and generateClips goes
\* on after it: loadExistingClips returns on an error, it does not throw.
SelectReply(ok) ==
    /\ confirm.pc = "query"
    /\ SelectRequest(confirm.gen) \in requests
    /\ requests' = requests \ {SelectRequest(confirm.gen)}
    /\ IF ok
       THEN /\ generatedClips' \in Ordered(store)
            /\ UNCHANGED errorMessage
       ELSE /\ errorMessage' = "loadExistingClips"
            /\ UNCHANGED generatedClips
    /\ clips' = <<>>
    /\ lastAlert' = AlertCreated
    /\ generating' = FALSE
    /\ confirm' = [confirm EXCEPT !.pc = "idle"]
    /\ lastOp' = "selectReply"
    /\ UNCHANGED <<env, clockOn, slots, mounted, videoUrl, exportingClipId, job,
                   video, clipDuration, store, calls, hung, frame>>

\* Durations of the videos opened, playhead positions and slice lengths.
PlanDurations == {Whole(2)}

PlanPositions == {Zero, Whole(2)}

PlanLengths == {Whole(1), Zero}

\* Edits of the draft list and of the slice length followed in one view.
MaxEdits == 3

Counted == edits < MaxEdits /\ edits' = edits + 1

InitPlan ==
    /\ InitExportIdle
    /\ video \in [duration : PlanDurations]
    /\ InitPlannerState
    /\ frame = NoFrame

NextPlan ==
    \/ Counted /\ AutoGenerateClips
    \/ Counted /\ \E v \in PlanLengths : SetClipDuration(v)
    \/ Counted /\ \E t \in PlanPositions : AddClip(t)
    \/ Counted /\ \E i \in 1..MaxDrafts : RemoveClip(i)
    \/ Counted /\ \E i \in 1..MaxDrafts : EditTitle(i)
    \/ GenerateClips /\ UNCHANGED edits
    \/ \E user \in {"yes", "no"} : GetUserReply(user) /\ UNCHANGED edits
    \/ \E r \in requests, ok \in BOOLEAN : InsertReply(r, ok) /\ UNCHANGED edits
    \/ \E ok \in BOOLEAN : SelectReply(ok) /\ UNCHANGED edits

SpecPlan == InitPlan /\ [][NextPlan]_vars

\* C13: generateClips called on an empty draft list, or on a list with a
\* draft of duration <= 0, shows a validation alert and returns: no call to
\* the session provider or the record store is made, no request is sent, the
\* in-progress flag stays clear and the drafts and the store are what they were.
C13_ValidationBeforePersistence ==
    [][ ( /\ lastOp' = "generateClips"
          /\ \/ clips = <<>>
             \/ \E i \in 1..Len(clips) : LessEq(clips[i].duration, Zero) )
        => ( /\ lastAlert' \in {AlertNoClips, AlertDuration}
             /\ calls' = calls
             /\ requests' = requests
             /\ ~generating'
             /\ clips' = clips
             /\ store' = store ) ]_vars

C13_Witness ==
    /\ lastOp = "generateClips"
    /\ lastAlert = AlertDuration
    /\ \E i \in 1..Len(clips) : LessEq(clips[i].duration, Zero)
    /\ calls = NoCalls
    /\ requests = {}

\* C14: when getUser gives no user, generateClips throws "Not authenticated"
\* and ends with the failure alert before any insert is issued, and the
\* drafts are what they were.
C14_NoUserNoInsert ==
    [][ (lastOp' = "getUserReply" /\ confirm'.user = "no")
        => ( /\ confirm'.err = "Not authenticated"
             /\ confirm'.pc = "idle"
             /\ lastAlert' = AlertFailed
             /\ ~generating'
             /\ calls'.insert = calls.insert
             /\ \A r \in requests' : r.kind # "insert" \/ r \in requests
             /\ clips' = clips
             /\ store' = store ) ]_vars

C14_Witness ==
    /\ lastOp = "getUserReply"
    /\ confirm.user = "no"
    /\ confirm.err = "Not authenticated"
    /\ clips # <<>>
    /\ calls.insert = 0

\* The step answers an insert that the running generateClips awaits, with an
\* error: the request is gone and its row is not stored.
AwaitedInsertFails ==
    /\ lastOp' = "insertReply"
    /\ confirm.pc = "inserts"
    /\ \E r \in requests \ requests' :
          r.kind = "insert" /\ r.gen = confirm.gen /\ r.row \notin store'

\* C15: when an insert of a bulk confirm fails, generateClips ends with the
\* one failure alert: nothing is sent again, nothing stored is removed (the
\* rows of the siblings that succeeded stay), the drafts are what they were
\* and the invocation is over, so that it reports no success.
C15_AggregateFailure ==
    [][ /\ store \subseteq store'
        /\ AwaitedInsertFails
             => ( /\ lastAlert' = AlertFailed
                  /\ confirm'.pc = "idle"
                  /\ ~generating'
                  /\ requests' \subseteq requests
                  /\ calls' = calls
                  /\ store' = store
                  /\ clips' = clips ) ]_vars

C15_Witness ==
    /\ lastOp = "insertReply"
    /\ confirm.err = "insert"
    /\ lastAlert = AlertFailed
    /\ \E row \in store : row.id[1] = confirm.gen
    /\ clips = confirm.drafts
    /\ Len(clips) > 1

\* C16: once generateClips has reported its outcome and cleared the
\* in-progress flag, none of its inserts is still in flight.
C16_NoInsertInFlightAtEnd ==
    (confirm.gen > 0 /\ confirm.pc = "idle") =>
        /\ ~generating
        /\ \A r \in Inserts : r.gen # confirm.gen

\* C17: when generateClips has reported success, every draft it was called
\* with is a row of the store, the draft list is empty, and the list of
\* persisted clips shown is the rows of the store by start_time ascending.
C17_SuccessShowsStore ==
    (lastOp = "selectReply" /\ lastAlert = AlertCreated) =>
        /\ \A i \in 1..Len(confirm.drafts) : \E row \in store :
              /\ row.id = <<confirm.gen, i>>
              /\ row.start_time = confirm.drafts[i].start
              /\ row.duration = confirm.drafts[i].duration
        /\ clips = <<>>
        /\ generatedClips \in Ordered(store)

C19_DraftsWithinSource ==
    \A i \in 1..Len(clips) :
        /\ LessEq(Zero, clips[i].start)
        /\ Less(clips[i].start, video.duration)
        /\ Positive(clips[i].duration)
        /\ LessEq(Plus(clips[i].start, clips[i].duration), video.duration)

\* ========================================================= frame geometry
\* canvas.width and canvas.height of the export canvas.
CanvasWidth == 720
CanvasHeight == 1280

\* sourceRatio > targetRatio, with the mutation that compares the other way.
WiderFlipped(sourceRatio, targetRatio) == Less(sourceRatio, targetRatio)

Wider(sourceRatio, targetRatio) == Less(targetRatio, sourceRatio)

\* The rectangle drawFrame hands to ctx.drawImage for a source of
\* videoWidth x videoHeight pixels.  The quotient of two whole numbers is
\* Ratio; -(x) of a zero x is the zero (the sign of a zero is not kept: it
\* changes no comparison and no drawing).
DrawRect(videoWidth, videoHeight) ==
    LET sourceRatio == Ratio(videoWidth, videoHeight)
        targetRatio == Ratio(CanvasWidth, CanvasHeight)
    IN  IF Wider(sourceRatio, targetRatio)
        THEN LET drawHeight == Whole(CanvasHeight)
                 drawWidth == Times(Whole(videoWidth), Ratio(CanvasHeight, videoHeight))
             IN  [drawWidth |-> drawWidth, drawHeight |-> drawHeight,
                  offsetX |-> Half(Neg(Minus(drawWidth, Whole(CanvasWidth)))),
                  offsetY |-> Zero]
        ELSE LET drawWidth == Whole(CanvasWidth)
                 drawHeight == Times(Whole(videoHeight), Ratio(CanvasWidth, videoWidth))
             IN  [drawWidth |-> drawWidth, drawHeight |-> drawHeight,
                  offsetX |-> Zero,
                  offsetY |-> Half(Neg(Minus(drawHeight, Whole(CanvasHeight))))]

\* One run of drawFrame that reaches ctx.drawImage.
DrawImage ==
    /\ frame.width > 0 /\ frame.height > 0
    /\ frame' = [frame EXCEPT !.rect = DrawRect(frame.width, frame.height)]
    /\ UNCHANGED <<exportVars, video, clipDuration, clips, generating, generatedClips,
                   store, confirm, requests, calls, lastAlert, lastOp, hung, edits>>

\* Sides, in pixels, of the small sources followed, and sizes of sources as
\* cameras and encoders produce them.
MaxSide == 8

SourceSizes ==
    ((1..MaxSide) \X (1..MaxSide))
        \cup {<<1920, 1080>>, <<1080, 1920>>, <<1280, 720>>, <<720, 1280>>, <<640, 480>>,
              <<1440, 1080>>, <<1080, 1080>>, <<3840, 2160>>, <<1386, 2464>>}

InitDraw ==
    /\ InitExportIdle
    /\ video = [duration |-> Zero]
    /\ InitPlannerState
    /\ frame \in {[width |-> size[1], height |-> size[2], rect |-> <<>>] : size \in SourceSizes}

NextDraw == DrawImage

SpecDraw == InitDraw /\ [][NextDraw]_vars

Drawn == frame.rect # <<>>

\* The source is wider than the canvas: videoWidth / videoHeight > 720 / 1280,
\* in whole numbers.
WideSource == frame.width * CanvasHeight > CanvasWidth * frame.height

\* x is the quotient n / d as double arithmetic gives it: within two
\* roundings (2^-51 of its value) of it.
Rounds(x, n, d) ==
    LessEq(Abs(ExactSub(ExactMul(Whole(d), x), Whole(n))), Scale(Whole(n), 2 - Precision))

\* The rectangle covers the canvas from `margin` inwards: it starts at most
\* `margin` after the left and top edges and ends at most `margin` before the
\* right and bottom edges.
Covers(rect, margin) ==
    /\ LessEq(rect.offsetX, margin)
    /\ LessEq(rect.offsetY, margin)
    /\ LessEq(ExactSub(Whole(CanvasWidth), margin), ExactAdd(rect.offsetX, rect.drawWidth))
    /\ LessEq(ExactSub(Whole(CanvasHeight), margin), ExactAdd(rect.offsetY, rect.drawHeight))

\* The formulas of the centred fit: the side that fills the canvas and its
\* zero offset, the other side as the rounded quotient, and its offset.
CentredFit(rect) ==
    IF WideSource
    THEN /\ rect.drawHeight = Whole(CanvasHeight)
         /\ rect.offsetY = Zero
         /\ Rounds(rect.drawWidth, frame.width * CanvasHeight, frame.height)
         /\ rect.offsetX = Half(Neg(Minus(rect.drawWidth, Whole(CanvasWidth))))
    ELSE /\ rect.drawWidth = Whole(CanvasWidth)
         /\ rect.offsetX = Zero
         /\ Rounds(rect.drawHeight, frame.height * CanvasWidth, frame.width)
         /\ rect.offsetY = Half(Neg(Minus(rect.drawHeight, Whole(CanvasHeight))))

\* C20 as stated: for every source of positive width and height the
\* rectangle drawn is the centred fit and covers the whole canvas.
C20_CoversCanvas ==
    Drawn => (CentredFit(frame.rect) /\ Covers(frame.rect, Zero))

\* C20: for every source of positive width and height the rectangle drawn is
\* the centred fit, its sides being the quotients as double arithmetic rounds
\* them, and it covers the canvas but for a margin of at most 2^-40 pixel at
\* an edge.
C20_CoversCanvasRounded ==
    Drawn => (CentredFit(frame.rect) /\ Covers(frame.rect, Scale(Whole(1), -40)))

C20_Witness ==
    /\ Drawn
    /\ frame.width = 1920 /\ frame.height = 1080
    /\ frame.rect.drawHeight = Whole(CanvasHeight)
    /\ Less(Whole(2275), frame.rect.drawWidth) /\ Less(frame.rect.drawWidth, Whole(2276))
    /\ Less(Whole(-778), frame.rect.offsetX) /\ Less(frame.rect.offsetX, Whole(-777))
    /\ frame.rect.offsetY = Zero

\* ================================================================ draw loop
\* The stop path of the job has run, or its encoder is not recording.
Stopped(r) == r.recordingStopped \/ r.recorder # "recording"

\* C21: in every step and for every job, no frame is painted after the stop
\* path has run or with the encoder inactive; a draw callback that runs then
\* requests no further callback; and a callback is requested while none is
\* pending only by the invocation itself when play() resolves, which it
\* awaits once, before which the job has no encoder and after which it keeps
\* one: a loop that ended is not started again.
C21_DrawLoopEnds ==
    [][\A j \in Jobs :
          /\ job'[j].lateFrames = 0
          /\ (DrawFrame(j) /\ Stopped(job[j])) => ~job'[j].raf
          /\ (~job[j].raf /\ job'[j].raf) => (job[j].pc = "play" /\ job'[j].pc # "play")
          /\ (job[j].pc # "play" /\ job'[j].pc = "play") => job[j].recorder = "none"
          /\ job[j].recorder # "none" => job'[j].recorder # "none"]_vars

\* The loop of a job ran and has ended: the stop timer fired during the
\* recording, the callback that followed returned at its first line, and no
\* callback is pending.
C21_Witness ==
    \E j \in Jobs :
        /\ job[j].timer = "fired"
        /\ job[j].recordingStopped
        /\ job[j].recorderStops = 1
        /\ ~job[j].raf
        /\ job[j].lateFrames = 0
        /\ job[j].pc = "recording"

\* ============================================================== termination
\* C22: for every source duration and every slice length the clip duration
\* input can hold, zero and negative values included, a call of
\* autoGenerateClips returns with a finite list of drafts: its loop is
\* never one that does not end.
C22_AutoGenerateTerminates ==
    lastOp = "autoGenerateClips" => ~hung

====
